---- MODULE Spec2Model ----
(***************************************************************************)
(* The folding wall of src/components: FoldingWall (Scene3D.tsx) creates   *)
(* one FoldStrip per index, and every FoldStrip registers a per-frame      *)
(* callback (useFrame) that moves its mesh toward a target computed from   *)
(* the pointer and the clock.                                              *)
(*                                                                         *)
(* Numbers.  The program computes in IEEE doubles.  Here a number v is the *)
(* integer v * Scale (fixed point, resolution 1/Scale); a product of two   *)
(* numbers is rounded down to the grid (Mul).  Math.sin and Math.cos are   *)
(* Taylor polynomials after range reduction, accurate to about 2/Scale.    *)
(* Floating-point rounding itself is outside the model.                    *)
(***************************************************************************)
EXTENDS Integers, FiniteSets

VARIABLES
    totalStrips,     \* prop totalStrips of every FoldStrip (FoldingWall's STRIP_COUNT)
    width,           \* prop width of every FoldStrip (FoldingWall's WALL_WIDTH)
    stripTexture,    \* per strip: the clone's repeat.x and offset.x
    targetRotation,  \* per strip: targetRotation.current
    targetX,         \* per strip: targetX.current
    mesh,            \* per strip: meshRef.current's rotation.y, position.x, position.z, rotation.x
    pointer,         \* the host's pointer (x, y), as read by this frame's callbacks
    time,            \* state.clock.getElapsedTime() of this frame
    delta,           \* the delta the host passes to this frame's callbacks
    pending,         \* strips whose callback has not yet run in this frame
    frame,           \* number of frames begun
    frameStart       \* history: every strip's state when this frame began

vars == <<totalStrips, width, stripTexture, targetRotation, targetX, mesh,
          pointer, time, delta, pending, frame, frameStart>>

----------------------------------------------------------------------------
(* Fixed-point arithmetic *)

Scale == 6 * 1000

Abs(x) == IF x < 0 THEN -x ELSE x
Max(a, b) == IF a >= b THEN a ELSE b
Min(a, b) == IF a <= b THEN a ELSE b

\* a * b for two fixed-point numbers
Mul(a, b) == (a * b) \div Scale

\* a / n for a fixed-point a and a whole number n
DivN(a, n) == a \div n

Pi == (31416 * Scale) \div 10000
HalfPi == (15708 * Scale) \div 10000
TwoPi == (62832 * Scale) \div 10000

\* sin on [0, pi/2]: x - x^3/6 + x^5/120 - x^7/5040
SinQ(x) ==
    LET x2 == Mul(x, x)
        x3 == Mul(x2, x)
        x5 == Mul(x3, x2)
        x7 == Mul(x5, x2)
    IN  x - (x3 \div 6) + (x5 \div 120) - (x7 \div 5040)

\* cos on [0, pi/2]: 1 - x^2/2 + x^4/24 - x^6/720 + x^8/40320
CosQ(x) ==
    LET x2 == Mul(x, x)
        x4 == Mul(x2, x2)
        x6 == Mul(x4, x2)
        x8 == Mul(x6, x2)
    IN  Scale - (x2 \div 2) + (x4 \div 24) - (x6 \div 720) + (x8 \div 40320)

\* Math.sin
Sin(x) ==
    LET r == x % TwoPi
        h == IF r > Pi THEN r - Pi ELSE r
        q == IF h > HalfPi THEN Pi - h ELSE h
    IN  IF r > Pi THEN -SinQ(q) ELSE SinQ(q)

\* Math.cos
Cos(x) ==
    LET r == x % TwoPi
        h == IF r > Pi THEN TwoPi - r ELSE r
    IN  IF h > HalfPi THEN -CosQ(Pi - h) ELSE CosQ(h)

\* THREE.MathUtils.lerp(x, y, t) = (1 - t) * x + t * y; t is not clamped
Lerp(x, y, t) == ((Scale - t) * x + t * y) \div Scale

----------------------------------------------------------------------------
(* Bounds and input sets *)

MaxStrips == 3
MaxFrames == 2

\* Scene3D.tsx: WALL_WIDTH = 12; the second width is the spec's 8-wide scenario
WALL_WIDTH == 12
Widths == {8 * Scale, WALL_WIDTH * Scale}

\* Math.PI / 2.2
maxFoldAngle == (Pi * 10) \div 22

\* What the host reads at the start of a frame: pointer.x and pointer.y in
\* [-1, 1] and the clock in seconds.  |x| = 2/3 is where compression
\* saturates; at 6.2 s the wave's phase 0.5 * time is just below pi.
Readings ==
    {[x |-> 0, y |-> 0, time |-> 0],
     [x |-> 0, y |-> Scale, time |-> (62 * Scale) \div 10],
     [x |-> Scale, y |-> 0, time |-> 0],
     [x |-> -((2 * Scale) \div 3), y |-> -Scale, time |-> (62 * Scale) \div 10],
     [x |-> (2 * Scale) \div 3 - 1, y |-> Scale, time |-> 0]}

\* frame deltas, seconds: a repeated timestamp (0), a 10 fps frame (0.1, the
\* rotation factor 10 * delta is exactly 1), a stalled frame (0.25)
Deltas == {0, Scale \div 10, Scale \div 4}

Strips == 0 .. (totalStrips - 1)

----------------------------------------------------------------------------
(* FoldStrip: what a strip computes from its props *)

\* stripWidth = width / totalStrips
stripWidth == DivN(width, totalStrips)

\* initialX = -width / 2 + (index * stripWidth) + (stripWidth / 2)
InitialXLeftEdge(index) == -DivN(width, 2) + (index * stripWidth)
initialX(index) == -DivN(width, 2) + (index * stripWidth) + DivN(stripWidth, 2)

\* t.repeat.set(1 / totalStrips, 1)
repeatU == DivN(Scale, totalStrips)

\* t.offset.set(index / totalStrips, 0)
OffsetUNext(index) == DivN((index + 1) * Scale, totalStrips)
offsetU(index) == DivN(index * Scale, totalStrips)

----------------------------------------------------------------------------
(* FoldStrip.useFrame: the locals of one callback *)

\* wave = Math.sin(time * 0.5 + index * 0.1) * 0.1
WaveNoPhase(index) == Mul(Sin(Mul(time, Scale \div 2)), Scale \div 10)
wave(index) == Mul(Sin(Mul(time, Scale \div 2) + index * (Scale \div 10)), Scale \div 10)

\* dir = index % 2 === 0 ? 1 : -1
DirSame(index) == 1
dir(index) == IF index % 2 = 0 THEN 1 ELSE -1

\* compression = Math.max(0, Math.min(1, Math.abs(pointer.x) * 1.5))
CompressionUnclamped == Max(0, Mul(Abs(pointer.x), (3 * Scale) \div 2))
compression == Max(0, Min(Scale, Mul(Abs(pointer.x), (3 * Scale) \div 2)))

\* globalConfig.maxFoldAngle * compression + (wave * 0.2)
fold(index) == Mul(maxFoldAngle, compression) + Mul(wave(index), Scale \div 5)

\* angle = dir * (globalConfig.maxFoldAngle * compression + (wave * 0.2))
angle(index) == dir(index) * fold(index)

\* newX = initialX * Math.cos(Math.abs(targetRotation.current))
newX(index, rot) == Mul(initialX(index), Cos(Abs(rot)))

\* zOffset = Math.sin(absAngle) * (stripWidth * 0.25) * dir
zOffset(index, rot) == Mul(Sin(Abs(rot)), Mul(stripWidth, Scale \div 4)) * dir(index)

\* tilt = pointer.y * 0.2
tilt == Mul(pointer.y, Scale \div 5)

\* One strip's state: the two refs and the four mesh fields the callback writes
StripState(i) ==
    [targetRotation |-> targetRotation[i], targetX |-> targetX[i],
     rotation_y |-> mesh[i].rotation_y, position_x |-> mesh[i].position_x,
     position_z |-> mesh[i].position_z, rotation_x |-> mesh[i].rotation_x]

\* The callback's effect on the state s of strip index: the four dampened
\* assignments, each target computed as the callback computes it
Update(index, s) ==
    LET rot == Lerp(s.targetRotation, angle(index), 10 * delta)
        tx  == Lerp(s.targetX, newX(index, rot), 8 * delta)
    IN  [targetRotation |-> rot,
         targetX        |-> tx,
         rotation_y     |-> rot,
         position_x     |-> tx,
         position_z     |-> Lerp(s.position_z, zOffset(index, rot), 8 * delta),
         rotation_x     |-> Lerp(s.rotation_x, tilt, 5 * delta)]

----------------------------------------------------------------------------
(* State machine *)

\* After FoldingWall's first render and commit: refs at 0, every mesh at
\* position [initialX, 0, 0] with no rotation, no frame run yet.
InitWall ==
    /\ totalStrips \in 1 .. MaxStrips
    /\ width \in Widths
    /\ stripTexture = [i \in Strips |-> [repeat |-> repeatU, offset |-> offsetU(i)]]
    /\ targetRotation = [i \in Strips |-> 0]
    /\ targetX = [i \in Strips |-> 0]
    /\ mesh = [i \in Strips |-> [rotation_y |-> 0, position_x |-> initialX(i),
                                 position_z |-> 0, rotation_x |-> 0]]
    /\ pending = {}
    /\ frame = 0
    /\ frameStart = [i \in Strips |-> StripState(i)]

Init ==
    /\ InitWall
    /\ pointer = [x |-> 0, y |-> 0]
    /\ time = 0
    /\ delta = 0

\* The host starts a frame: one pointer, clock and delta reading for all callbacks
BeginFrame ==
    /\ pending = {}
    /\ frame < MaxFrames
    /\ \E r \in Readings :
          /\ pointer' = [x |-> r.x, y |-> r.y]
          /\ time' = r.time
    /\ delta' \in Deltas
    /\ pending' = Strips
    /\ frame' = frame + 1
    /\ frameStart' = [i \in Strips |-> StripState(i)]
    /\ UNCHANGED <<totalStrips, width, stripTexture, targetRotation, targetX, mesh>>

\* The host starts a frame with the sample of the frame before it
BeginFrameHold ==
    /\ pending = {}
    /\ frame < MaxFrames
    /\ pending' = Strips
    /\ frame' = frame + 1
    /\ frameStart' = [i \in Strips |-> StripState(i)]
    /\ UNCHANGED <<totalStrips, width, stripTexture, targetRotation, targetX, mesh,
                   pointer, time, delta>>

\* A callback that keeps its smoothed values in variables all strips share
UseFrameShared(index) ==
    /\ index \in pending
    /\ LET s == Update(index, StripState(index))
       IN  /\ targetRotation' = [i \in Strips |-> s.targetRotation]
           /\ targetX' = [i \in Strips |-> s.targetX]
           /\ mesh' = [mesh EXCEPT ![index] =
                         [rotation_y |-> s.rotation_y, position_x |-> s.position_x,
                          position_z |-> s.position_z, rotation_x |-> s.rotation_x]]
    /\ pending' = pending \ {index}
    /\ UNCHANGED <<totalStrips, width, stripTexture, pointer, time, delta, frame, frameStart>>

\* The callback of strip index runs (meshRef.current is set: the mesh is mounted)
UseFrame(index) ==
    /\ index \in pending
    /\ LET s == Update(index, StripState(index))
       IN  /\ targetRotation' = [targetRotation EXCEPT ![index] = s.targetRotation]
           /\ targetX' = [targetX EXCEPT ![index] = s.targetX]
           /\ mesh' = [mesh EXCEPT ![index] =
                         [rotation_y |-> s.rotation_y, position_x |-> s.position_x,
                          position_z |-> s.position_z, rotation_x |-> s.rotation_x]]
    /\ pending' = pending \ {index}
    /\ UNCHANGED <<totalStrips, width, stripTexture, pointer, time, delta, frame, frameStart>>

Next ==
    \/ BeginFrame
    \/ \E index \in Strips : UseFrame(index)

Spec == Init /\ [][Next]_vars

\* The same input sample on every frame from creation on
InitHold ==
    /\ InitWall
    /\ \E r \in Readings :
          /\ pointer = [x |-> r.x, y |-> r.y]
          /\ time = r.time
    /\ delta \in Deltas

NextHold ==
    \/ BeginFrameHold
    \/ \E index \in Strips : UseFrame(index)

SpecHold == InitHold /\ [][NextHold]_vars

----------------------------------------------------------------------------
(* Vocabulary of the properties *)

\* The callback of strip i has run in the current frame
Ran(i) == frame >= 1 /\ i \notin pending

\* This step is the callback of strip i
StepOf(i) == i \in pending /\ i \notin pending'

\* b lies between a and c (ends included)
Between(a, b, c) == (a <= b /\ b <= c) \/ (c <= b /\ b <= a)

Dist(a, b) == Abs(a - b)

\* Where the four smoothed values come to rest under the current sample
finalX(i) == newX(i, angle(i))
finalZ(i) == zOffset(i, angle(i))

----------------------------------------------------------------------------
(* C1 *)

\* C1: in every callback with delta > 0 each smoothed value (rotation Y,
\* position X, position Z, tilt X) ends between its old value and the target
\* of that update, never past the target.
C1_NeverPastTarget ==
    [][\A i \in Strips :
          (StepOf(i) /\ delta > 0) =>
             /\ Between(targetRotation[i], targetRotation'[i], angle(i))
             /\ Between(targetX[i], targetX'[i], newX(i, targetRotation'[i]))
             /\ Between(mesh[i].position_z, mesh'[i].position_z,
                        zOffset(i, targetRotation'[i]))
             /\ Between(mesh[i].rotation_x, mesh'[i].rotation_x, tilt)]_vars

----------------------------------------------------------------------------
(* C2 *)

\* C2: with one sample held on every frame and delta > 0, no callback
\* increases the distance of rotation Y, position X, position Z or tilt X
\* to its final target.
C2_MonotoneApproach ==
    [][\A i \in Strips :
          (StepOf(i) /\ delta > 0) =>
             /\ Dist(targetRotation'[i], angle(i)) <= Dist(targetRotation[i], angle(i))
             /\ Dist(targetX'[i], finalX(i)) <= Dist(targetX[i], finalX(i))
             /\ Dist(mesh'[i].position_z, finalZ(i)) <= Dist(mesh[i].position_z, finalZ(i))
             /\ Dist(mesh'[i].rotation_x, tilt) <= Dist(mesh[i].rotation_x, tilt)]_vars

----------------------------------------------------------------------------
(* C3 *)

\* C3: a callback with delta <= 0 acts like one with a small positive delta:
\* it moves no smoothed value away from its target, and a value that differs
\* from its target does not stay where it was.
C3_NonPositiveDeltaClamped ==
    [][\A i \in Strips :
          (StepOf(i) /\ delta <= 0) =>
             /\ Dist(targetRotation'[i], angle(i)) <= Dist(targetRotation[i], angle(i))
             /\ Dist(mesh'[i].rotation_x, tilt) <= Dist(mesh[i].rotation_x, tilt)
             /\ (targetRotation[i] # angle(i) => targetRotation'[i] # targetRotation[i])
             /\ (targetX[i] # newX(i, targetRotation'[i]) => targetX'[i] # targetX[i])
             /\ (mesh[i].rotation_x # tilt => mesh'[i].rotation_x # mesh[i].rotation_x)]_vars

----------------------------------------------------------------------------
(* C10 *)

\* C10: in every state, also before the first frame, the mesh's position.x
\* equals the strip's retained smoothed X (targetX.current).
C10_RenderedXIsSmoothedX ==
    \A i \in Strips : mesh[i].position_x = targetX[i]

----------------------------------------------------------------------------
(* C4 *)

Sgn(x) == IF x > 0 THEN 1 ELSE IF x < 0 THEN -1 ELSE 0

\* Strip i has reached the target angle of the current sample
Converged(i) == Ran(i) /\ targetRotation[i] = angle(i)

----------------------------------------------------------------------------
(* C5 *)

RestInput == pointer.x = 0 /\ pointer.y = 0 /\ time = 0

\* C5 as stated: under the rest sample compression and wave are 0 for every
\* strip, so every target angle is 0 and every strip that started flat keeps
\* rotation Y = 0.
C5_RestAllStripsFlat ==
    RestInput =>
       \A i \in Strips :
          Ran(i) => /\ compression = 0
                    /\ wave(i) = 0
                    /\ angle(i) = 0
                    /\ targetRotation[i] = 0

\* C5 amended: under the rest sample held from creation, compression and the
\* target tilt are 0 for every strip, but wave is 0.1 * sin(0.1 * index),
\* which is 0 for strip 0 only; so the target angle dir * 0.2 * wave is 0 for
\* strip 0 only.  Strip 0 keeps rotation Y = 0 and position Z = 0 and its
\* target X is its flat centre; every strip keeps tilt X = 0.
C5_RestOnlyStripZeroFlat ==
    RestInput =>
       /\ compression = 0
       /\ tilt = 0
       /\ \A i \in Strips :
             /\ wave(i) = 0 <=> i = 0
             /\ angle(i) = 0 <=> i = 0
             /\ angle(i) = dir(i) * Mul(wave(i), Scale \div 5)
             /\ mesh[i].rotation_x = 0
       /\ targetRotation[0] = 0
       /\ mesh[0].rotation_y = 0
       /\ mesh[0].position_z = 0
       /\ newX(0, targetRotation[0]) = initialX(0)

\* A frame of the rest sample has run on strips 0 and 1: strip 0 is flat,
\* strip 1 has left the flat pose
C5_Witness ==
    /\ RestInput
    /\ totalStrips >= 2
    /\ Ran(0) /\ Ran(1)
    /\ delta > 0
    /\ targetRotation[0] = 0
    /\ targetRotation[1] # 0

----------------------------------------------------------------------------
(* C6 *)

----------------------------------------------------------------------------
(* C7 *)

leftEdge(i) == initialX(i) - DivN(stripWidth, 2)
rightEdge(i) == initialX(i) + DivN(stripWidth, 2)

\* C7: the strips' flat intervals [initialX - stripWidth/2, initialX +
\* stripWidth/2] tile [-width/2, width/2]: the first starts at -width/2, the
\* last ends at width/2, each right edge is the next left edge; and a mesh is
\* created at its flat centre.
C7_FlatLayoutTiles ==
    /\ leftEdge(0) = -DivN(width, 2)
    /\ rightEdge(totalStrips - 1) = DivN(width, 2)
    /\ \A i \in Strips : i + 1 \in Strips => rightEdge(i) = leftEdge(i + 1)
    /\ \A i \in Strips : rightEdge(i) - leftEdge(i) = stripWidth
    /\ frame = 0 => \A i \in Strips : mesh[i].position_x = initialX(i)

\* Three strips on the 12-wide wall, as created: centres -4, 0, 4
C7_Witness ==
    /\ totalStrips = 3
    /\ width = WALL_WIDTH * Scale
    /\ frame = 0
    /\ mesh[0].position_x = -4 * Scale
    /\ mesh[1].position_x = 0
    /\ mesh[2].position_x = 4 * Scale

----------------------------------------------------------------------------
(* C8 *)

\* C8: the strips' texture windows partition [0, 1] in U: the first offset is
\* 0, each offset plus the repeat is the next offset, the last offset plus
\* the repeat is 1.
C8_TexturePartition ==
    /\ stripTexture[0].offset = 0
    /\ \A i \in Strips :
          i + 1 \in Strips =>
             stripTexture[i].offset + stripTexture[i].repeat = stripTexture[i + 1].offset
    /\ stripTexture[totalStrips - 1].offset + stripTexture[totalStrips - 1].repeat = Scale
    /\ \A i \in Strips : stripTexture[i].repeat * totalStrips = Scale

\* Three texture windows: offsets 0, 1/3, 2/3, repeat 1/3
C8_Witness ==
    /\ totalStrips = 3
    /\ stripTexture[1].offset = Scale \div 3
    /\ stripTexture[2].offset = (2 * Scale) \div 3
    /\ stripTexture[2].repeat = Scale \div 3

----------------------------------------------------------------------------
(* C9 *)

\* C9: compression lies in [0, 1] and is 1 exactly when |pointer.x| >= 2/3;
\* the pointer-driven part of the target angle is at most maxFoldAngle in
\* magnitude; at pointer.x = 1 or -1 with wave = 0 the target angle has
\* magnitude maxFoldAngle, and a callback with 10 * delta = 1 puts the strip
\* exactly there.
C9_CompressionSaturates ==
    /\ 0 <= compression /\ compression <= Scale
    /\ compression = Scale <=> 3 * Abs(pointer.x) >= 2 * Scale
    /\ \A i \in Strips :
          /\ Abs(angle(i) - dir(i) * Mul(wave(i), Scale \div 5)) <= maxFoldAngle
          /\ (Abs(pointer.x) = Scale /\ wave(i) = 0) => Abs(angle(i)) = maxFoldAngle
          /\ (Ran(i) /\ 10 * delta = Scale /\ Abs(pointer.x) = Scale /\ wave(i) = 0)
                => Abs(targetRotation[i]) = maxFoldAngle

\* Strip 0 driven to the full fold by the pointer at the edge, clock at 0
C9_Witness ==
    /\ Ran(0)
    /\ Abs(pointer.x) = Scale
    /\ wave(0) = 0
    /\ 10 * delta = Scale
    /\ compression = Scale
    /\ Abs(targetRotation[0]) = maxFoldAngle

====
